---- MODULE Spec2Model ----
(***************************************************************************)
(* dedup (src/src/main.rs): the duplicate-detection index, the hasher, the *)
(* relative-path resolver and the driver loop of main().                   *)
(*                                                                         *)
(* Bytes are 0/1 and the 64 KiB hash block is scaled down to 2 bytes, so   *)
(* that files shorter than a block, files of whole blocks and files with a *)
(* short final chunk all occur among contents of at most 4 bytes.          *)
(* SHA-256 is an ideal (injective) hash: a digest is the byte stream that  *)
(* was fed to the hasher.                                                  *)
(***************************************************************************)
EXTENDS Integers, Sequences, FiniteSets, TLC

\* main.rs:12-13 (65536 in the source, scaled to 2 bytes here)
HASH_BLOCK_LEN == 2
HASH_BUFLEN == 2

\* number of entries the walker may yield in one run
MaxVisits == 4

\* longest canonical path (components after the root) of the resolver's inputs
MaxDepth == 3

Min(a, b) == IF a < b THEN a ELSE b

----------------------------------------------------------------------------
(* The file system the run works on.                                       *)

\* The path strings the walker can yield, as component sequences. The
\* working directory is the root; "./d/f" and "d/f" name the same file but
\* are different PathBufs (a leading CurDir component is kept by Path).
PathNames ==
    { <<"d", "f">>, <<".", "d", "f">>, <<"d", "s", "g">>, <<"e", "h">> }

\* The contents a file may hold: empty, shorter than a block, a short final
\* chunk, whole blocks ("AAAA"), same first block but different second
\* block, different first block.
Contents ==
    { <<>>, <<1>>, <<1, 1, 1>>, <<1, 1, 1, 1>>, <<1, 1, 0, 1>>, <<0, 1, 1, 1>> }

MinSizes == {0, 1}
Modes == {"report", "remove", "symlink"}

\* Where a path string leads: the absolute component sequence, without
\* resolving a symbolic link at its last component.
Locate(path) == <<"/">> \o SelectSeq(path, LAMBDA c : c # ".")

Locs == { Locate(p) : p \in PathNames }

Parent(loc) == IF Len(loc) <= 1 THEN loc ELSE SubSeq(loc, 1, Len(loc) - 1)

\* Resolution of a relative path from a directory, as the kernel does for
\* the target of a symbolic link (directories here are never links).
RECURSIVE Resolve(_, _)
Resolve(dir, rel) ==
    IF rel = <<>> THEN dir
    ELSE IF Head(rel) = ".." THEN Resolve(Parent(dir), Tail(rel))
    ELSE Resolve(Append(dir, Head(rel)), Tail(rel))

RegularFile(data) == [kind |-> "file", data |-> data, target |-> <<>>]
SymLink(target) == [kind |-> "link", data |-> <<>>, target |-> target]
NoFile == [kind |-> "none", data |-> <<>>, target |-> <<>>]

Exists(f, loc) == loc \in DOMAIN f /\ f[loc].kind # "none"

\* The location a path leads to once a symbolic link at its last component
\* is followed.
Follow(f, loc) ==
    IF Exists(f, loc) /\ f[loc].kind = "link"
    THEN Resolve(Parent(loc), f[loc].target)
    ELSE loc

OpenAt(f, via) ==
    IF Exists(f, via) /\ f[via].kind = "file"
    THEN [ok |-> TRUE, data |-> f[via].data, loc |-> via]
    ELSE [ok |-> FALSE, data |-> <<>>, loc |-> <<>>]

\* std::fs::File::open(path): follows a symbolic link; fails on a missing
\* file and on a dangling link.
Open(f, path) == OpenAt(f, Follow(f, Locate(path)))

\* Path::canonicalize(): the absolute, link-free location (field loc);
\* fails when the path does not lead to a file.
canonicalize(f, path) == OpenAt(f, Follow(f, Locate(path)))

----------------------------------------------------------------------------
(* Hasher (main.rs:71-119).                                                *)

Take(s, n) == SubSeq(s, 1, Min(n, Len(s)))
Drop(s, n) == SubSeq(s, n + 1, Len(s))

\* file.read(&mut buf[..]): the bytes read overwrite the front of the
\* buffer; the rest of the buffer keeps what it held.
ReadInto(buf, chunk) ==
    [i \in 1..Len(buf) |-> IF i <= Len(chunk) THEN chunk[i] ELSE buf[i]]

ZeroBuf(n) == [i \in 1..n |-> 0]

\* Sha256 of the bytes fed to the hasher (ideal hash: digests are equal
\* exactly when the fed byte streams are equal).
Sha256(fed) == fed

\* short_hash after File::open: the first block, read until the block is
\* full or the file ends, in a zeroed buffer that is hashed whole.
short_hash_of(file) ==
    IF ~file.ok THEN [ok |-> FALSE, hash |-> <<>>]
    ELSE [ok |-> TRUE,
          hash |-> Sha256(ReadInto(ZeroBuf(HASH_BLOCK_LEN),
                                   Take(file.data, HASH_BLOCK_LEN)))]

short_hash(f, path) == short_hash_of(Open(f, path))

\* The loop of compute_full_hash: one read per pass into the same buffer
\* (a read fills the buffer unless the file ends), the whole buffer fed to
\* the hasher after every read that returned bytes.
RECURSIVE FullHashLoop(_, _)
FullHashLoop(rest, buf) ==
    IF rest = <<>> THEN <<>>
    ELSE ReadInto(buf, Take(rest, HASH_BUFLEN))
         \o FullHashLoop(Drop(rest, HASH_BUFLEN),
                         ReadInto(buf, Take(rest, HASH_BUFLEN)))

\* faulty variant of compute_full_hash_of: the loop is left after the
\* first read, so only the first chunk is hashed
compute_full_hash_first_chunk(file) ==
    IF ~file.ok THEN [ok |-> FALSE, hash |-> <<>>]
    ELSE [ok |-> TRUE,
          hash |-> Sha256(FullHashLoop(Take(file.data, HASH_BUFLEN),
                                       ZeroBuf(HASH_BUFLEN)))]

\* faulty variant of compute_full_hash_of: the loop ends at the first read
\* that does not fill the buffer, so a short final chunk is not hashed
compute_full_hash_whole_chunks(file) ==
    IF ~file.ok THEN [ok |-> FALSE, hash |-> <<>>]
    ELSE [ok |-> TRUE,
          hash |-> Sha256(FullHashLoop(
                      Take(file.data,
                           HASH_BUFLEN * (Len(file.data) \div HASH_BUFLEN)),
                      ZeroBuf(HASH_BUFLEN)))]

compute_full_hash_of(file) ==
    IF ~file.ok THEN [ok |-> FALSE, hash |-> <<>>]
    ELSE [ok |-> TRUE,
          hash |-> Sha256(FullHashLoop(file.data, ZeroBuf(HASH_BUFLEN)))]

compute_full_hash(f, path) == compute_full_hash_of(Open(f, path))

----------------------------------------------------------------------------
(* Duplicate index (main.rs:60-69, 109-163).                               *)
(* An index value ix is the struct Index, [size_map, full_hashes], with    *)
(* two observation fields: full_reads counts the calls of                  *)
(* compute_full_hash per path, hashed collects the paths a hash routine    *)
(* has opened. The steps of a routine are chained through operator         *)
(* arguments: a result is computed once and handed to the next step.       *)

\* enum SizeMapEntry
One(path) == [tag |-> "One", path |-> path, map |-> <<>>]
Multiple(hash_map) == [tag |-> "Multiple", path |-> <<>>, map |-> hash_map]

\* faulty variant of multimap_insert: the value is put in front of the
\* key's vector
multimap_insert_front(m, k, v) ==
    IF k \in DOMAIN m THEN [m EXCEPT ![k] = <<v>> \o @]
    ELSE m @@ (k :> <<v>>)

\* MultiMap::insert: append to the key's vector, in insertion order
multimap_insert(m, k, v) ==
    IF k \in DOMAIN m THEN [m EXCEPT ![k] = Append(@, v)]
    ELSE m @@ (k :> <<v>>)

\* MultiMap::get_slice
multimap_get_slice(m, k) == IF k \in DOMAIN m THEN m[k] ELSE <<>>

Opened(ix, path) == [ix EXCEPT !.hashed = @ \cup {path}]

Ok(res, rep, ix) == [res |-> res, rep |-> rep, ix |-> ix]
Err(ix) == [res |-> "err", rep |-> <<>>, ix |-> ix]

\* full_hash, arm Entry::Vacant (lines 113-117): the digest just computed
\* is stored, unless compute_full_hash failed
full_hash_Vacant(computed, path, ix) ==
    IF ~computed.ok THEN [ok |-> FALSE, hash |-> <<>>, ix |-> ix]
    ELSE [ok |-> TRUE, hash |-> computed.hash,
          ix |-> [ix EXCEPT !.full_hashes = (path :> computed.hash) @@ @]]

\* faulty variant of full_hash: the cache is not consulted, the digest is
\* computed and stored on every call
full_hash_uncached(f, path, ix) ==
    full_hash_Vacant(compute_full_hash(f, path), path,
                     [Opened(ix, path) EXCEPT !.full_reads[path] = @ + 1])

\* full_hash (lines 109-119): the cached digest, or compute_full_hash
full_hash(f, path, ix) ==
    IF path \in DOMAIN ix.full_hashes
    THEN [ok |-> TRUE, hash |-> ix.full_hashes[path], ix |-> ix]
    ELSE full_hash_Vacant(compute_full_hash(f, path), path,
                          [Opened(ix, path) EXCEPT !.full_reads[path] = @ + 1])

\* full_hash(prev_path, ..)? == full_hash(path, ..)?  (lines 135-136 and
\* 147-148): the right operand, then the comparison
full_hashes_equal_rhs(prev_digest, hn) ==
    IF ~hn.ok THEN [ok |-> FALSE, eq |-> FALSE, ix |-> hn.ix]
    ELSE [ok |-> TRUE, eq |-> prev_digest = hn.hash, ix |-> hn.ix]

full_hashes_equal_lhs(f, path, hp) ==
    IF ~hp.ok THEN [ok |-> FALSE, eq |-> FALSE, ix |-> hp.ix]
    ELSE full_hashes_equal_rhs(hp.hash, full_hash(f, path, hp.ix))

full_hashes_equal(f, prev_path, path, ix) ==
    full_hashes_equal_lhs(f, path, full_hash(f, prev_path, ix))

\* faulty variant of is_duplicate_of_prev: the operands of && swapped, so
\* the full digests are computed before the partial digests are compared
is_duplicate_of_prev_eager(f, prev_hash, new_hash, prev_path, path, ix) ==
    [full_hashes_equal(f, prev_path, path, ix) EXCEPT
        !.eq = @ /\ new_hash = prev_hash]

\* new_hash == prev_hash && full_hash(..)? == full_hash(..)?  (lines 134-137)
is_duplicate_of_prev(f, prev_hash, new_hash, prev_path, path, ix) ==
    IF new_hash = prev_hash
    THEN full_hashes_equal(f, prev_path, path, ix)
    ELSE [ok |-> TRUE, eq |-> FALSE, ix |-> ix]

\* faulty variant of check_index_One_decide: the upgraded bucket is seeded
\* with both paths under the new path's partial digest
check_index_One_seed_one_key(size, prev_path, path, prev_hash, new_hash, dup) ==
    IF ~dup.ok THEN Err(dup.ix)
    ELSE IF dup.eq THEN Ok("some", prev_path, dup.ix)
    ELSE Ok("none", <<>>,
            [dup.ix EXCEPT !.size_map[size] =
                Multiple(multimap_insert(
                    multimap_insert(<<>>, new_hash, prev_path),
                    new_hash, path))])

\* arm One, lines 137-141: return Some(prev_path), or upgrade the bucket
check_index_One_decide(size, prev_path, path, prev_hash, new_hash, dup) ==
    IF ~dup.ok THEN Err(dup.ix)
    ELSE IF dup.eq THEN Ok("some", prev_path, dup.ix)
    ELSE Ok("none", <<>>,
            [dup.ix EXCEPT !.size_map[size] =
                Multiple(multimap_insert(
                    multimap_insert(<<>>, prev_hash, prev_path),
                    new_hash, path))])

\* arm One, lines 130-136: the two partial digests, then the comparison
check_index_One_hashed(f, path, size, prev_path, prev_hash, new_hash, ix) ==
    IF ~prev_hash.ok THEN Err(Opened(ix, prev_path))
    ELSE IF ~new_hash.ok THEN Err(Opened(Opened(ix, prev_path), path))
    ELSE check_index_One_decide(size, prev_path, path,
            prev_hash.hash, new_hash.hash,
            is_duplicate_of_prev(f, prev_hash.hash, new_hash.hash,
                prev_path, path, Opened(Opened(ix, prev_path), path)))

\* check_index, arm SizeMapEntry::One (lines 128-142)
check_index_One(f, path, size, ix) ==
    check_index_One_hashed(f, path, size, ix.size_map[size].path,
        short_hash(f, ix.size_map[size].path), short_hash(f, path), ix)

\* faulty variant of scan_slice_compared: the loop ends after the first
\* candidate of the slice
scan_slice_first_only(f, slice, path, cmp) ==
    IF ~cmp.ok THEN Err(cmp.ix)
    ELSE IF cmp.eq THEN Ok("some", Head(slice), cmp.ix)
    ELSE Ok("none", <<>>, cmp.ix)

\* the for loop over the slice of the new partial digest (lines 146-152)
RECURSIVE scan_slice(_, _, _, _)
scan_slice_compared(f, slice, path, cmp) ==
    IF ~cmp.ok THEN Err(cmp.ix)
    ELSE IF cmp.eq THEN Ok("some", Head(slice), cmp.ix)
    ELSE scan_slice(f, Tail(slice), path, cmp.ix)

scan_slice(f, slice, path, ix) ==
    IF slice = <<>> THEN Ok("none", <<>>, ix)
    ELSE scan_slice_compared(f, slice, path,
            full_hashes_equal(f, Head(slice), path, ix))

\* faulty variant of check_index_Multiple_decide: the path is inserted
\* before the result of the scan is looked at, so a duplicate is stored too
check_index_Multiple_insert_first(path, size, hash_map, new_hash, found) ==
    IF found.res = "err" THEN found
    ELSE Ok(found.res, found.rep,
            [found.ix EXCEPT !.size_map[size] =
                Multiple(multimap_insert(hash_map, new_hash, path))])

\* arm Multiple, lines 150-154: the match found, or the insert
check_index_Multiple_decide(path, size, hash_map, new_hash, found) ==
    IF found.res # "none" THEN found
    ELSE Ok("none", <<>>,
            [found.ix EXCEPT !.size_map[size] =
                Multiple(multimap_insert(hash_map, new_hash, path))])

\* arm Multiple, lines 144-153: the partial digest, then the slice
check_index_Multiple_hashed(f, path, size, hash_map, new_hash, ix) ==
    IF ~new_hash.ok THEN Err(Opened(ix, path))
    ELSE check_index_Multiple_decide(path, size, hash_map, new_hash.hash,
            scan_slice(f, multimap_get_slice(hash_map, new_hash.hash),
                       path, Opened(ix, path)))

\* check_index, arm SizeMapEntry::Multiple (lines 143-155)
check_index_Multiple(f, path, size, ix) ==
    check_index_Multiple_hashed(f, path, size, ix.size_map[size].map,
        short_hash(f, path), ix)

\* faulty variant of check_index_Vacant: the new file is opened for its
\* partial digest although the size has no bucket yet
check_index_Vacant_hashing(path, size, ix) ==
    Ok("none", <<>>,
       Opened([ix EXCEPT !.size_map = (size :> One(path)) @@ @], path))

\* check_index, arm Entry::Vacant (lines 157-159)
check_index_Vacant(path, size, ix) ==
    Ok("none", <<>>, [ix EXCEPT !.size_map = (size :> One(path)) @@ @])

\* check_index (lines 121-163); size is entry.metadata()?.len()
check_index(f, path, size, ix) ==
    IF size \notin DOMAIN ix.size_map THEN check_index_Vacant(path, size, ix)
    ELSE IF ix.size_map[size].tag = "One" THEN check_index_One(f, path, size, ix)
    ELSE check_index_Multiple(f, path, size, ix)

----------------------------------------------------------------------------
(* Path resolver (main.rs:165-190).                                        *)

\* faulty variant of lockstep_loop: the component of base that ends the
\* loop is only looked at, not consumed
RECURSIVE lockstep_loop_peek(_, _)
lockstep_loop_peek(iter_base, iter_target) ==
    IF iter_base = <<>> THEN [base |-> <<>>, target |-> iter_target]
    ELSE IF iter_target = <<>> \/ Head(iter_base) # Head(iter_target)
    THEN [base |-> iter_base, target |-> iter_target]
    ELSE lockstep_loop_peek(Tail(iter_base), Tail(iter_target))

\* faulty variant of lockstep_loop: the pass that breaks consumes the
\* component of target too (next() instead of peek())
RECURSIVE lockstep_loop_next_both(_, _)
lockstep_loop_next_both(iter_base, iter_target) ==
    IF iter_base = <<>> THEN [base |-> <<>>, target |-> iter_target]
    ELSE IF iter_target = <<>> THEN [base |-> Tail(iter_base), target |-> <<>>]
    ELSE IF Head(iter_base) # Head(iter_target)
    THEN [base |-> Tail(iter_base), target |-> Tail(iter_target)]
    ELSE lockstep_loop_next_both(Tail(iter_base), Tail(iter_target))

\* the lockstep loop (lines 173-180): iter_base.next() consumes a component
\* of base on every pass, also on the pass that breaks
RECURSIVE lockstep_loop(_, _)
lockstep_loop(iter_base, iter_target) ==
    IF iter_base = <<>> THEN [base |-> <<>>, target |-> iter_target]
    ELSE IF iter_target = <<>> \/ Head(iter_base) # Head(iter_target)
    THEN [base |-> Tail(iter_base), target |-> iter_target]
    ELSE lockstep_loop(Tail(iter_base), Tail(iter_target))

\* lines 182-188: a ParentDir for every component left in iter_base, then
\* what is left of iter_target; a left-over base component that is not
\* Normal panics
collect_relative(rest) ==
    IF \E i \in 1..Len(rest.base) : rest.base[i] \in {"/", ".", ".."}
    THEN [status |-> "panic", rel |-> <<>>]
    ELSE [status |-> "ok",
          rel |-> [i \in 1..Len(rest.base) |-> ".."] \o rest.target]

\* lines 170-189 on the canonical component sequences
relative_components(abs_base, abs_target) ==
    collect_relative(lockstep_loop(abs_base, abs_target))

\* lines 167-168: both canonicalize()? calls
relative_path_canonical(abs_base, abs_target) ==
    IF ~abs_base.ok \/ ~abs_target.ok THEN [status |-> "err", rel |-> <<>>]
    ELSE relative_components(abs_base.loc, abs_target.loc)

\* faulty variant of relative_path: base and target exchanged
relative_path_swapped(f, base, target) ==
    relative_path_canonical(canonicalize(f, target), canonicalize(f, base))

\* relative_path (lines 165-190)
relative_path(f, base, target) ==
    relative_path_canonical(canonicalize(f, base), canonicalize(f, target))

----------------------------------------------------------------------------
(* The run: main() (main.rs:203-271).                                      *)

VARIABLES
    fs,           \* the file system: location -> regular file, link or nothing
    fs0,          \* the file system when the run started
    options,      \* Options: [min_size, mode]; mode is the --remove/--symlink group
    size_map,     \* Index.size_map: size -> SizeMapEntry
    full_hashes,  \* Index.full_hashes: path -> full digest
    full_reads,   \* observation: calls of compute_full_hash per path
    hashed,       \* observation: paths opened by short_hash or compute_full_hash
    num_files, num_actions, saved_bytes,
    outcome,      \* "running", then "ok" (summary printed), "err" or "panic"
    visits,       \* entries the walker has yielded
    history,      \* observation: the paths check_index was called with, in order
    last,         \* observation: the last entry and what check_index returned
    dups,         \* observation: <<duplicate, representative>> pairs acted on
    rp_base, rp_target, rp_rel,  \* the resolver on its own (SpecRel)
    h_input, h_short, h_full     \* the hash routines on their own (SpecHash)

vars == << fs, fs0, options, size_map, full_hashes, full_reads, hashed,
           num_files, num_actions, saved_bytes, outcome, visits, history,
           last, dups, rp_base, rp_target, rp_rel,
                    h_input, h_short, h_full >>

\* the struct Index with the observation fields
Index == [size_map |-> size_map, full_hashes |-> full_hashes,
          full_reads |-> full_reads, hashed |-> hashed]

Counters == [num_files |-> num_files, num_actions |-> num_actions,
             saved_bytes |-> saved_bytes]

\* entry.metadata()?.len(): of the entry itself, a link is not followed
metadata_len(meta) ==
    IF meta.kind = "file" THEN Len(meta.data) ELSE Len(meta.target)

\* faulty variant of eligible: size >= min_size
eligible_at_least(meta, min_size) ==
    meta.kind = "file" /\ metadata_len(meta) >= min_size

\* entry.file_type().is_file() && size > options.min_size  (line 223)
eligible(meta, min_size) ==
    meta.kind = "file" /\ metadata_len(meta) > min_size

\* faulty variant of is_other_path: the test of line 225 left out
is_other_path_unchecked(prev_path, path) == TRUE

\* prev_path != entry.path()  (line 225): PathBuf comparison, by components
is_other_path(prev_path, path) == prev_path # path

\* fs::remove_file and std::os::unix::fs::symlink (lines 227-232);
\* symlink(2) fails with ENOENT on an empty target
apply_mode(f, mode, loc, rel) ==
    IF mode = "report" THEN [ok |-> TRUE, fs |-> f]
    ELSE IF mode = "remove" THEN [ok |-> TRUE, fs |-> [f EXCEPT ![loc] = NoFile]]
    ELSE IF rel = <<>> THEN [ok |-> FALSE, fs |-> [f EXCEPT ![loc] = NoFile]]
    ELSE [ok |-> TRUE, fs |-> [f EXCEPT ![loc] = SymLink(rel)]]

\* faulty variant of count_action: the size is not added
count_action_no_size(counters, size) ==
    [counters EXCEPT !.num_actions = @ + 1]

\* saved_bytes += size; num_actions += 1  (lines 245-246)
count_action(counters, size) ==
    [counters EXCEPT !.saved_bytes = @ + size, !.num_actions = @ + 1]

\* lines 227-246: the file system calls, then the counters
on_duplicate_applied(f, size, counters, done) ==
    IF ~done.ok
    THEN [outcome |-> "err", fs |-> done.fs, counters |-> counters,
          acted |-> FALSE]
    ELSE [outcome |-> "running", fs |-> done.fs,
          counters |-> count_action(counters, size), acted |-> TRUE]

\* line 226: relative_path(entry.path(), &prev_path)?
on_duplicate_resolved(f, mode, path, size, counters, rel) ==
    IF rel.status # "ok"
    THEN [outcome |-> rel.status, fs |-> f, counters |-> counters,
          acted |-> FALSE]
    ELSE on_duplicate_applied(f, size, counters,
            apply_mode(f, mode, Locate(path), rel.rel))

\* faulty variant of on_result: an Err of check_index is not propagated,
\* the entry is treated as new content
on_result_err_ignored(f, mode, path, size, counters, r) ==
    IF r.res \in {"err", "none"} \/ ~is_other_path(r.rep, path)
    THEN [outcome |-> "running", fs |-> f, counters |-> counters,
          acted |-> FALSE]
    ELSE on_duplicate_resolved(f, mode, path, size, counters,
            relative_path(f, path, r.rep))

\* what check_index's result leads to (lines 224-248)
on_result(f, mode, path, size, counters, r) ==
    IF r.res = "err"
    THEN [outcome |-> "err", fs |-> f, counters |-> counters, acted |-> FALSE]
    ELSE IF r.res = "none" \/ ~is_other_path(r.rep, path)
    THEN [outcome |-> "running", fs |-> f, counters |-> counters,
          acted |-> FALSE]
    ELSE on_duplicate_resolved(f, mode, path, size, counters,
            relative_path(f, path, r.rep))

Init ==
    /\ fs0 \in [Locs -> {RegularFile(c) : c \in Contents}]
    /\ fs = fs0
    /\ options \in [min_size : MinSizes, mode : Modes]
    /\ size_map = <<>>
    /\ full_hashes = <<>>
    /\ full_reads = [p \in PathNames |-> 0]
    /\ hashed = {}
    /\ num_files = 0 /\ num_actions = 0 /\ saved_bytes = 0
    /\ outcome = "running"
    /\ visits = 0
    /\ history = <<>>
    /\ last = [path |-> <<>>, res |-> "init", rep |-> <<>>]
    /\ dups = {}
    /\ rp_base = <<>> /\ rp_target = <<>>
    /\ rp_rel = [status |-> "unused", rel |-> <<>>]
    /\ h_input = <<>> /\ h_short = <<>> /\ h_full = <<>>

\* One pass of the loop body (lines 220-251) over an entry that is not
\* eligible: nothing is registered or counted.
Skip(path) ==
    /\ outcome = "running" /\ visits < MaxVisits
    /\ Exists(fs, Locate(path))
    /\ ~eligible(fs[Locate(path)], options.min_size)
    /\ visits' = visits + 1
    /\ last' = [path |-> path, res |-> "skip", rep |-> <<>>]
    /\ UNCHANGED << fs, fs0, options, size_map, full_hashes, full_reads, hashed,
                    num_files, num_actions, saved_bytes, outcome, history, dups,
                    rp_base, rp_target, rp_rel,
                    h_input, h_short, h_full >>

\* One pass of the loop body (lines 220-251) over an eligible entry.
Visit(path) ==
    /\ outcome = "running" /\ visits < MaxVisits
    /\ Exists(fs, Locate(path))
    /\ eligible(fs[Locate(path)], options.min_size)
    /\ \E size \in {metadata_len(fs[Locate(path)])} :
       \E r \in {check_index(fs, path, size, Index)} :
       \E d \in {on_result(fs, options.mode, path, size, Counters, r)} :
          /\ size_map' = r.ix.size_map
          /\ full_hashes' = r.ix.full_hashes
          /\ full_reads' = r.ix.full_reads
          /\ hashed' = r.ix.hashed
          /\ fs' = d.fs
          /\ outcome' = d.outcome
          /\ num_actions' = d.counters.num_actions
          /\ saved_bytes' = d.counters.saved_bytes
          /\ num_files' = IF d.outcome = "running" THEN num_files + 1
                          ELSE num_files
          /\ dups' = IF d.acted THEN dups \cup {<<path, r.rep>>} ELSE dups
          /\ last' = [path |-> path, res |-> r.res, rep |-> r.rep]
    /\ history' = Append(history, path)
    /\ visits' = visits + 1
    /\ UNCHANGED << fs0, options, rp_base, rp_target, rp_rel,
                    h_input, h_short, h_full >>

\* The walker fails on a path that is not there (`_entry?`, line 221).
WalkError(path) ==
    /\ outcome = "running" /\ visits < MaxVisits
    /\ ~Exists(fs, Locate(path))
    /\ outcome' = "err"
    /\ visits' = visits + 1
    /\ last' = [path |-> path, res |-> "walk_err", rep |-> <<>>]
    /\ UNCHANGED << fs, fs0, options, size_map, full_hashes, full_reads, hashed,
                    num_files, num_actions, saved_bytes, history, dups,
                    rp_base, rp_target, rp_rel,
                    h_input, h_short, h_full >>

\* The walk is over: the summary is printed (lines 254-270).
Finish ==
    /\ outcome = "running"
    /\ outcome' = "ok"
    /\ UNCHANGED << fs, fs0, options, size_map, full_hashes, full_reads, hashed,
                    num_files, num_actions, saved_bytes, visits, history, last,
                    dups, rp_base, rp_target, rp_rel,
                    h_input, h_short, h_full >>

Next ==
    \/ \E path \in PathNames : Skip(path)
    \/ \E path \in PathNames : Visit(path)
    \/ \E path \in PathNames : WalkError(path)
    \/ Finish

Spec == Init /\ [][Next]_vars

----------------------------------------------------------------------------
(* The path resolver on its own: relative_path's computation (lines        *)
(* 170-189) applied to a pair of canonical absolute paths.                 *)

RelNames == {"a", "b", "x"}

\* the canonical paths of at most MaxDepth components below the root
CanonicalPaths ==
    { <<"/">> \o s : s \in UNION { [1..k -> RelNames] : k \in 1..MaxDepth } }

\* the pair of the specification's example
ExampleBase == <<"/", "a", "b", "c", "file1">>
ExampleTarget == <<"/", "a", "x", "file2">>

InitRel ==
    /\ \E pair \in (CanonicalPaths \X CanonicalPaths)
                      \cup {<<ExampleBase, ExampleTarget>>} :
          rp_base = pair[1] /\ rp_target = pair[2]
    /\ rp_rel = [status |-> "pending", rel |-> <<>>]
    /\ h_input = <<>> /\ h_short = <<>> /\ h_full = <<>>
    /\ fs0 = [loc \in Locs |-> NoFile]
    /\ fs = fs0
    /\ options = [min_size |-> 0, mode |-> "report"]
    /\ size_map = <<>>
    /\ full_hashes = <<>>
    /\ full_reads = [p \in PathNames |-> 0]
    /\ hashed = {}
    /\ num_files = 0 /\ num_actions = 0 /\ saved_bytes = 0
    /\ outcome = "unused"
    /\ visits = 0
    /\ history = <<>>
    /\ last = [path |-> <<>>, res |-> "init", rep |-> <<>>]
    /\ dups = {}

ResolveRelative ==
    /\ rp_rel.status = "pending"
    /\ rp_rel' = relative_components(rp_base, rp_target)
    /\ UNCHANGED << fs, fs0, options, size_map, full_hashes, full_reads, hashed,
                    num_files, num_actions, saved_bytes, outcome, visits,
                    history, last, dups, rp_base, rp_target,
                    h_input, h_short, h_full >>

NextRel == ResolveRelative

SpecRel == InitRel /\ [][NextRel]_vars

----------------------------------------------------------------------------
(* The hash routines on their own: short_hash and compute_full_hash        *)
(* applied to two files with every content of at most MaxLen bytes.        *)

MaxLen == 5

\* the contents of at most MaxLen bytes
ByteSeqs == UNION { [1..n -> {0, 1}] : n \in 0..MaxLen }

\* what File::open returns for a regular file with the given content
OpenedFile(data) == [ok |-> TRUE, data |-> data, loc |-> <<>>]

Pending == [ok |-> FALSE, hash |-> <<>>]

InitHash ==
    /\ h_input \in ByteSeqs \X ByteSeqs
    /\ h_short = <<Pending, Pending>>
    /\ h_full = <<Pending, Pending>>
    /\ rp_base = <<>> /\ rp_target = <<>>
    /\ rp_rel = [status |-> "unused", rel |-> <<>>]
    /\ fs0 = [loc \in Locs |-> NoFile]
    /\ fs = fs0
    /\ options = [min_size |-> 0, mode |-> "report"]
    /\ size_map = <<>>
    /\ full_hashes = <<>>
    /\ full_reads = [p \in PathNames |-> 0]
    /\ hashed = {}
    /\ num_files = 0 /\ num_actions = 0 /\ saved_bytes = 0
    /\ outcome = "unused"
    /\ visits = 0
    /\ history = <<>>
    /\ last = [path |-> <<>>, res |-> "init", rep |-> <<>>]
    /\ dups = {}

\* short_hash on file i
ShortHash(i) ==
    /\ ~h_short[i].ok
    /\ h_short' = [h_short EXCEPT ![i] = short_hash_of(OpenedFile(h_input[i]))]
    /\ UNCHANGED << fs, fs0, options, size_map, full_hashes, full_reads, hashed,
                    num_files, num_actions, saved_bytes, outcome, visits,
                    history, last, dups, rp_base, rp_target, rp_rel,
                    h_input, h_full >>

\* compute_full_hash on file i
FullHash(i) ==
    /\ ~h_full[i].ok
    /\ h_full' = [h_full EXCEPT
                     ![i] = compute_full_hash_of(OpenedFile(h_input[i]))]
    /\ UNCHANGED << fs, fs0, options, size_map, full_hashes, full_reads, hashed,
                    num_files, num_actions, saved_bytes, outcome, visits,
                    history, last, dups, rp_base, rp_target, rp_rel,
                    h_input, h_short >>

NextHash ==
    \/ \E i \in 1..2 : ShortHash(i)
    \/ \E i \in 1..2 : FullHash(i)

SpecHash == InitHash /\ [][NextHash]_vars

----------------------------------------------------------------------------
(* The run on a tree that is not stable: a file may vanish while the run   *)
(* is under way (deleted by another process), so that the walker, the      *)
(* hasher and canonicalize() meet I/O errors in every mode.                *)

FaultContents == { <<1>>, <<1, 1, 1, 1>>, <<1, 1, 0, 1>> }

InitFault ==
    /\ Init
    /\ \A loc \in Locs : fs0[loc].data \in FaultContents

\* A file is deleted from outside the run.
Vanish(loc) ==
    /\ outcome = "running"
    /\ fs[loc].kind = "file"
    /\ fs' = [fs EXCEPT ![loc] = NoFile]
    /\ UNCHANGED << fs0, options, size_map, full_hashes, full_reads, hashed,
                    num_files, num_actions, saved_bytes, outcome, visits,
                    history, last, dups, rp_base, rp_target, rp_rel,
                    h_input, h_short, h_full >>

NextFault ==
    \/ Next
    \/ \E loc \in Locs : Vanish(loc)

SpecFault == InitFault /\ [][NextFault]_vars

----------------------------------------------------------------------------
(* Vocabulary of the properties.                                           *)

Range(s) == { s[i] : i \in DOMAIN s }

\* the paths a bucket holds
BucketPaths(e) ==
    IF e.tag = "One" THEN {e.path}
    ELSE UNION { Range(e.map[h]) : h \in DOMAIN e.map }

\* the paths stored in a size_map
StoredPaths(sm) == UNION { BucketPaths(sm[s]) : s \in DOMAIN sm }

\* the content a path had when the run started
Data0(path) == fs0[Locate(path)].data

\* the leading block of a file's real bytes
FirstBlock(path) == Take(Data0(path), HASH_BLOCK_LEN)

\* a step in which check_index is called (on last'.path)
Registers == Len(history') = Len(history) + 1

SetMin(S) == CHOOSE m \in S : \A n \in S : m <= n

----------------------------------------------------------------------------
(* C1 - Representative stability: check_index returns None for the first   *)
(* path registered with a given content and Some(that first path) for      *)
(* every later path with the same content, whatever was registered in      *)
(* between. Stated as in the specification; the run refutes it when        *)
(* --remove has deleted the representative's file through a second path    *)
(* string of the same file (see C19): the next registration of that        *)
(* content fails in short_hash(prev_path) instead of returning Some.       *)
C1_RepresentativeStability ==
    [][ Registers =>
          LET earlier == { i \in 1..Len(history) :
                             Data0(history[i]) = Data0(last'.path) }
          IN IF earlier = {}
             THEN last'.res = "none"
             ELSE last'.res = "some" /\ last'.rep = history[SetMin(earlier)]
      ]_vars

\* The same statement for the steps before which every stored path still
\* leads to its file: it holds there, so only a lost representative breaks
\* C1.
C1_StabilityWhileRepresentativesKept ==
    [][ Registers
        /\ (\A r \in StoredPaths(size_map) : fs[Locate(r)] = fs0[Locate(r)]) =>
          LET earlier == { i \in 1..Len(history) :
                             Data0(history[i]) = Data0(last'.path) }
          IN IF earlier = {}
             THEN last'.res = "none"
             ELSE last'.res = "some" /\ last'.rep = history[SetMin(earlier)]
      ]_vars

----------------------------------------------------------------------------
(* C2 - Result of register: while the files are as they were when the run  *)
(* started, check_index(path) returns Some(r) exactly when a stored path   *)
(* has the same size and the same bytes as path, r being such a path, and  *)
(* returns None exactly when no stored path has.                           *)
C2_RegisterResult ==
    [][ Registers /\ fs = fs0 =>
          LET same == { r \in StoredPaths(size_map) :
                          Data0(r) = Data0(last'.path) }
          IN /\ (last'.res = "some") <=> (same # {})
             /\ (last'.res = "none") <=> (same = {})
             /\ (last'.res = "some") => (last'.rep \in same)
      ]_vars

\* a duplicate found as the second candidate of a Grouped bucket, after a
\* candidate with the same partial digest and another content
C2_Witness ==
    /\ fs = fs0
    /\ last.res = "some"
    /\ last.rep # last.path
    /\ Data0(last.rep) = Data0(last.path)
    /\ \E s \in DOMAIN size_map :
          /\ size_map[s].tag = "Multiple"
          /\ \E h \in DOMAIN size_map[s].map :
                /\ Len(size_map[s].map[h]) = 2
                /\ size_map[s].map[h][2] = last.rep

----------------------------------------------------------------------------
(* C3 - With --min-size 0 a file of size 0 is included in the scan: the    *)
(* pass over it counts it (num_files) and registers it, and a second empty *)
(* file is reported as a duplicate of the first. The code tests            *)
(* size > min_size, so an empty file is passed over.                       *)
C3_EmptyFileIncluded ==
    [][ /\ visits' = visits + 1
        /\ options.min_size = 0
        /\ last'.path \in PathNames
        /\ fs[Locate(last'.path)] = RegularFile(<<>>)
        => /\ num_files' = num_files + 1
           /\ last'.res \in {"none", "some"}
           /\ (0 \in DOMAIN size_map) => (last'.res = "some")
      ]_vars

----------------------------------------------------------------------------
----------------------------------------------------------------------------
(* C5 - Cache correctness: compute_full_hash runs at most once for each    *)
(* path in a run, and an entry of full_hashes, once there, is never        *)
(* changed or removed.                                                     *)
C5_CacheCorrectness ==
    /\ [](\A p \in PathNames : full_reads[p] <= 1)
    /\ [][ \A p \in DOMAIN full_hashes :
              p \in DOMAIN full_hashes' /\ full_hashes'[p] = full_hashes[p]
         ]_vars

\* a path compared against two candidates in one call, and a candidate
\* compared in two calls, each with one full read
C5_Witness ==
    /\ last.res = "some"
    /\ last.rep # last.path
    /\ full_reads[last.path] = 1
    /\ \E s \in DOMAIN size_map :
          /\ size_map[s].tag = "Multiple"
          /\ \E h \in DOMAIN size_map[s].map :
                /\ Len(size_map[s].map[h]) = 2
                /\ size_map[s].map[h][2] = last.rep
                /\ full_reads[size_map[s].map[h][1]] = 1

----------------------------------------------------------------------------
(* C6 - Short-circuit correctness: a register call reads a file in full    *)
(* only if it is the new path or a stored path of its size with the same   *)
(* leading block; when no stored path of its size has the new path's       *)
(* leading block, the call computes no full digest and leaves full_hashes  *)
(* unchanged.                                                              *)
C6_ShortCircuit ==
    [][ Registers =>
          LET p == last'.path
              peers == { r \in StoredPaths(size_map) :
                           /\ Len(Data0(r)) = Len(Data0(p))
                           /\ FirstBlock(r) = FirstBlock(p) }
          IN /\ \A q \in PathNames :
                   full_reads'[q] > full_reads[q] => q = p \/ q \in peers
             /\ (peers = {}) =>
                   full_hashes' = full_hashes /\ full_reads' = full_reads
      ]_vars

\* a second path of a size registered with another leading block: the
\* bucket is Grouped under two partial digests and nothing was read in full
C6_Witness ==
    /\ last.res = "none"
    /\ full_hashes = <<>>
    /\ \A p \in PathNames : full_reads[p] = 0
    /\ \E s \in DOMAIN size_map :
          /\ size_map[s].tag = "Multiple"
          /\ Cardinality(DOMAIN size_map[s].map) = 2
          /\ last.path \in BucketPaths(size_map[s])

----------------------------------------------------------------------------
(* C7 - Idempotent re-registration: registering again a path that is       *)
(* stored in the index, its file unchanged, returns Some(that path),       *)
(* leaves size_map unchanged, and the driver counts no duplicate and       *)
(* touches no file.                                                        *)
C7_IdempotentReRegistration ==
    [][ /\ Registers
        /\ last'.path \in StoredPaths(size_map)
        /\ fs[Locate(last'.path)] = fs0[Locate(last'.path)]
        => /\ last'.res = "some"
           /\ last'.rep = last'.path
           /\ size_map' = size_map
           /\ num_actions' = num_actions
           /\ saved_bytes' = saved_bytes
           /\ dups' = dups
           /\ fs' = fs
           /\ outcome' = "running"
      ]_vars

\* a path of a Grouped bucket registered a second time
C7_Witness ==
    /\ last.res = "some"
    /\ last.rep = last.path
    /\ \E s \in DOMAIN size_map :
          /\ size_map[s].tag = "Multiple"
          /\ last.path \in BucketPaths(size_map[s])

----------------------------------------------------------------------------
(* C8 - Relative-path round trip: for distinct canonical absolute paths    *)
(* base and target, neither a prefix of the other, the relative path       *)
(* computed resolves, from the parent directory of base, to target; for    *)
(* /a/b/c/file1 and /a/x/file2 it is ../../x/file2. (SpecRel)              *)
IsPrefix(a, b) == Len(a) <= Len(b) /\ SubSeq(b, 1, Len(a)) = a

C8_RelativeRoundTrip ==
    rp_rel.status # "pending" =>
       /\ ( /\ rp_base # rp_target
            /\ ~IsPrefix(rp_base, rp_target)
            /\ ~IsPrefix(rp_target, rp_base) )
          => /\ rp_rel.status = "ok"
             /\ Resolve(Parent(rp_base), rp_rel.rel) = rp_target
       /\ (rp_base = ExampleBase /\ rp_target = ExampleTarget)
          => rp_rel.rel = <<"..", "..", "x", "file2">>

\* the example of the specification, computed
C8_Witness ==
    /\ rp_base = ExampleBase /\ rp_target = ExampleTarget
    /\ rp_rel.status = "ok"
    /\ Len(rp_rel.rel) = 4

----------------------------------------------------------------------------
(* C9 - Symlink mode postcondition: when a run with --symlink has ended    *)
(* without error, every path acted on as a duplicate is a symbolic link    *)
(* whose target resolves, from the link's directory, to its                *)
(* representative, and every representative and every stored path is       *)
(* still the regular file it was, with its content.                        *)
C9_SymlinkPostcondition ==
    (outcome = "ok" /\ options.mode = "symlink") =>
       /\ \A d \in dups :
             /\ fs[Locate(d[1])].kind = "link"
             /\ Resolve(Parent(Locate(d[1])), fs[Locate(d[1])].target)
                   = Locate(d[2])
             /\ fs[Locate(d[2])].kind = "file"
             /\ fs[Locate(d[2])] = fs0[Locate(d[2])]
       /\ \A r \in StoredPaths(size_map) :
             fs[Locate(r)].kind = "file" /\ fs[Locate(r)] = fs0[Locate(r)]

\* a finished --symlink run that linked a duplicate to a representative in
\* a directory of another depth
C9_Witness ==
    /\ outcome = "ok" /\ options.mode = "symlink"
    /\ \E d \in dups :
          /\ Len(Locate(d[1])) # Len(Locate(d[2]))
          /\ fs[Locate(d[1])].kind = "link"
          /\ Len(fs[Locate(d[1])].target) >= 3

----------------------------------------------------------------------------
(* C10 - Summary counters: when a run in which every eligible file was     *)
(* visited once has printed its summary, the duplicate count is the number *)
(* of eligible files minus the number of distinct contents among them,     *)
(* which is the processed-files count minus the number of stored paths,    *)
(* and the bytes are the sum of the sizes of the duplicates; d/f and e/h   *)
(* both holding "AAAA" (the specification's d1/foo and d2/bar) give one    *)
(* duplicate, e/h of d/f, and 4 bytes.                                     *)
EligibleLocs == { loc \in Locs : eligible(fs0[loc], options.min_size) }

VisitedOnce ==
    \A loc \in Locs :
       Cardinality({ i \in 1..Len(history) : Locate(history[i]) = loc })
          = IF loc \in EligibleLocs THEN 1 ELSE 0

RECURSIVE SumSizes(_)
SumSizes(S) ==
    IF S = {} THEN 0
    ELSE LET d == CHOOSE x \in S : TRUE
         IN Len(Data0(d[1])) + SumSizes(S \ {d})

AAAA == <<1, 1, 1, 1>>

TwoCopiesOfAAAA ==
    /\ options.min_size = 0
    /\ Data0(<<"d", "f">>) = AAAA /\ Data0(<<"e", "h">>) = AAAA
    /\ history = << <<"d", "f">>, <<"e", "h">> >>

C10_SummaryCounters ==
    (outcome = "ok" /\ VisitedOnce) =>
       /\ num_actions = Cardinality(EligibleLocs)
             - Cardinality({ fs0[loc].data : loc \in EligibleLocs })
       /\ num_actions = num_files - Cardinality(StoredPaths(size_map))
       /\ num_actions = Cardinality(dups)
       /\ saved_bytes = SumSizes(dups)
       /\ TwoCopiesOfAAAA =>
             /\ dups = { << <<"e", "h">>, <<"d", "f">> >> }
             /\ num_actions = 1
             /\ saved_bytes = 4

\* the example run, finished
C10_Witness ==
    /\ outcome = "ok" /\ VisitedOnce /\ TwoCopiesOfAAAA
    /\ num_files = 2

----------------------------------------------------------------------------
(* C11 - Fatal errors stop the run: a pass that meets an I/O error (the    *)
(* walker, a hash routine, canonicalize, symlink) ends the run with an     *)
(* error outcome; that pass registers and counts nothing, and after it no  *)
(* step is taken: nothing is registered, deleted or linked and no summary  *)
(* is printed. A run ends with an error outcome only in a pass that met an *)
(* error; every other run ends with the summary, also with zero            *)
(* duplicates. (SpecFault)                                                 *)

\* the pass of this step met an I/O error: the walker's, check_index's,
\* canonicalize's of the representative, or symlink's on an empty target
ErrorMet ==
    \/ last'.res \in {"walk_err", "err"}
    \/ /\ last'.res = "some"
       /\ last'.rep # last'.path
       /\ \/ ~OpenAt(fs, Follow(fs, Locate(last'.rep))).ok
          \/ /\ options.mode = "symlink"
             /\ Follow(fs, Locate(last'.rep)) = Locate(last'.path)

----------------------------------------------------------------------------
(* C12 - Bucket transition: a bucket One(prev) becomes Multiple exactly in *)
(* a check_index call on a path whose content differs from prev's; the     *)
(* Multiple map then holds exactly prev and the new path, each under the   *)
(* zero-padded leading block of its own content, prev first, and the call  *)
(* returns None. When the new path has prev's content the bucket stays     *)
(* One(prev). (Spec)                                                       *)

\* the partial digest of a path's content: its leading block, zero padded
PartialDigest(path) ==
    Sha256(FirstBlock(path)
           \o [i \in 1..(HASH_BLOCK_LEN - Len(FirstBlock(path))) |-> 0])

\* the map that holds exactly the two paths under their partial digests
SeededMap(prev, path) ==
    IF PartialDigest(prev) = PartialDigest(path)
    THEN PartialDigest(prev) :> <<prev, path>>
    ELSE (PartialDigest(prev) :> <<prev>>) @@ (PartialDigest(path) :> <<path>>)

\* check_index is called on a size whose bucket is One, and does not fail
RegistersOnOne(size) ==
    /\ Registers
    /\ last'.res # "err"
    /\ size = Len(Data0(last'.path))
    /\ size \in DOMAIN size_map
    /\ size_map[size].tag = "One"

C12_BucketTransition ==
    [][\A size \in DOMAIN size_map :
          /\ (size_map[size].tag = "One" /\ size_map'[size].tag = "Multiple")
                => /\ RegistersOnOne(size)
                   /\ Data0(last'.path) # Data0(size_map[size].path)
          /\ RegistersOnOne(size) =>
                IF Data0(last'.path) = Data0(size_map[size].path)
                THEN size_map'[size] = size_map[size]
                ELSE /\ size_map'[size] =
                           Multiple(SeededMap(size_map[size].path, last'.path))
                     /\ last'.res = "none"
      ]_vars

\* a bucket upgraded by a path with the same leading block as prev and a
\* different full content
C12_Witness ==
    /\ last.res = "none"
    /\ \E size \in DOMAIN size_map :
          /\ size_map[size].tag = "Multiple"
          /\ \E h \in DOMAIN size_map[size].map :
                /\ Len(size_map[size].map[h]) = 2
                /\ size_map[size].map[h][2] = last.path

----------------------------------------------------------------------------
(* C13 - Frame of check_index: a call that returns Some(rep) leaves        *)
(* size_map as it was and full_hashes only gains entries; a call that      *)
(* returns None adds the new path, and nothing else, to the bucket of its  *)
(* size, keeps every path of that bucket, and leaves every other bucket as *)
(* it was. (Spec)                                                          *)

\* the bucket of a size, as a set of paths
PathsOfSize(sm, size) ==
    IF size \in DOMAIN sm THEN BucketPaths(sm[size]) ELSE {}

C13_Frame ==
    [][Registers =>
          /\ \A p \in DOMAIN full_hashes :
                p \in DOMAIN full_hashes' /\ full_hashes'[p] = full_hashes[p]
          /\ (last'.res = "some") => size_map' = size_map
          /\ (last'.res = "none") =>
                /\ DOMAIN size_map' =
                      DOMAIN size_map \cup {Len(Data0(last'.path))}
                /\ \A size \in DOMAIN size_map :
                      size # Len(Data0(last'.path))
                         => size_map'[size] = size_map[size]
                /\ last'.path \notin
                      PathsOfSize(size_map, Len(Data0(last'.path)))
                /\ PathsOfSize(size_map', Len(Data0(last'.path))) =
                      PathsOfSize(size_map, Len(Data0(last'.path)))
                         \cup {last'.path}
      ]_vars

\* a duplicate found in a Multiple bucket while another bucket exists, the
\* call having computed a full digest
C13_Witness ==
    /\ last.res = "some"
    /\ Len(Data0(last.path)) \in DOMAIN size_map
    /\ size_map[Len(Data0(last.path))].tag = "Multiple"
    /\ Cardinality(DOMAIN size_map) >= 2
    /\ last.path \in DOMAIN full_hashes

----------------------------------------------------------------------------
(* C14 - Path uniqueness: in every reachable state a path is stored in at  *)
(* most one size bucket and at most once in it (one position of one list   *)
(* of a Multiple map), also after a path was registered more than once;    *)
(* and two different stored paths never have the same content. (Spec)      *)

\* the positions <<size, partial digest, index>> at which a path is stored
Positions(sm, path) ==
    { <<size, <<>>, 1>> : size \in { s \in DOMAIN sm :
            sm[s].tag = "One" /\ sm[s].path = path } }
    \cup UNION { UNION { { <<size, h, i>> :
                            i \in { j \in DOMAIN sm[size].map[h] :
                                       sm[size].map[h][j] = path } } :
                          h \in DOMAIN sm[size].map } :
                 size \in { s \in DOMAIN sm : sm[s].tag = "Multiple" } }

C14_PathUniqueness ==
    /\ \A p \in StoredPaths(size_map) :
          Cardinality(Positions(size_map, p)) = 1
    /\ \A p, q \in StoredPaths(size_map) : p # q => Data0(p) # Data0(q)

\* a stored path was passed to check_index twice, and a list of a Multiple
\* map holds two paths
C14_Witness ==
    /\ \E i, j \in DOMAIN history :
          i < j /\ history[i] = history[j]
                /\ history[i] \in StoredPaths(size_map)
    /\ \E size \in DOMAIN size_map :
          /\ size_map[size].tag = "Multiple"
          /\ \E h \in DOMAIN size_map[size].map :
                Len(size_map[size].map[h]) = 2

----------------------------------------------------------------------------
(* C15 - Monotonic index: in every step of a run every size of size_map    *)
(* stays, every bucket keeps its paths, a Multiple bucket stays Multiple   *)
(* and every list of its map is only extended at its end; in every state   *)
(* the paths of a list stand in the order of their first registration.     *)
(* This holds in the runs that delete or symlink duplicates too. (Spec)    *)

\* the place of a path's first registration in the run
FirstRegistered(path) ==
    SetMin({ i \in DOMAIN history : history[i] = path })

\* list before is the beginning of list after
ExtendedAtEnd(before, after) ==
    /\ Len(before) <= Len(after)
    /\ \A i \in DOMAIN before : after[i] = before[i]

C15_MonotonicIndex ==
    /\ [][\A size \in DOMAIN size_map :
             /\ size \in DOMAIN size_map'
             /\ BucketPaths(size_map[size]) \subseteq BucketPaths(size_map'[size])
             /\ (size_map[size].tag = "Multiple") =>
                   /\ size_map'[size].tag = "Multiple"
                   /\ \A h \in DOMAIN size_map[size].map :
                         /\ h \in DOMAIN size_map'[size].map
                         /\ ExtendedAtEnd(size_map[size].map[h],
                                          size_map'[size].map[h])
         ]_vars
    /\ [](\A size \in DOMAIN size_map :
             (size_map[size].tag = "Multiple") =>
                \A h \in DOMAIN size_map[size].map :
                   \A i, j \in DOMAIN size_map[size].map[h] :
                      i < j => FirstRegistered(size_map[size].map[h][i])
                                  < FirstRegistered(size_map[size].map[h][j]))

\* a run that has deleted a duplicate and holds a list of two paths in a
\* Multiple bucket, next to a second bucket
C15_Witness ==
    /\ options.mode = "remove"
    /\ num_actions >= 1
    /\ \E loc \in Locs : fs[loc] = NoFile
    /\ Cardinality(DOMAIN size_map) >= 2
    /\ \E size \in DOMAIN size_map :
          /\ size_map[size].tag = "Multiple"
          /\ \E h \in DOMAIN size_map[size].map :
                Len(size_map[size].map[h]) = 2

----------------------------------------------------------------------------
(* C16 - Lazy hashing, as stated: a check_index call on a size without a   *)
(* bucket opens no file and computes no digest; files are opened and       *)
(* digests computed only in check_index calls that find a bucket for the   *)
(* size; and a file whose size no other eligible file has is never hashed. *)
(* The last part fails when such a file is visited twice. (Spec)           *)

\* the step opens no file for hashing and computes no digest
NoDigestComputed ==
    /\ hashed' = hashed
    /\ full_reads' = full_reads
    /\ full_hashes' = full_hashes

\* digests are computed only by check_index calls that find a bucket
DigestsOnlyOnCollision ==
    [][/\ (Registers /\ Len(Data0(last'.path)) \notin DOMAIN size_map)
             => NoDigestComputed
       /\ ~Registers => NoDigestComputed
      ]_vars

\* another eligible file of the tree has the size of path's file
SizeShared(path) ==
    \E loc \in Locs :
       /\ loc # Locate(path)
       /\ eligible(fs0[loc], options.min_size)
       /\ Len(fs0[loc].data) = Len(Data0(path))

C16_LazyHashing ==
    /\ DigestsOnlyOnCollision
    /\ [](\A p \in hashed : SizeShared(p))

(* C16, amended: a check_index call on a size without a bucket opens no    *)
(* file and computes no digest; files are opened and digests computed only *)
(* in check_index calls that find a bucket for the size; and a path is     *)
(* hashed only if at least two registrations of the run, one of them of    *)
(* that path, have its size (two files, or one file registered twice).     *)
(* (Spec)                                                                  *)
C16_LazyHashingOfRegistrations ==
    /\ DigestsOnlyOnCollision
    /\ [](\A p \in hashed :
             \E i, j \in DOMAIN history :
                /\ i # j
                /\ history[i] = p
                /\ Len(Data0(history[j])) = Len(Data0(p)))

\* three files registered, one of them with a size of its own and not
\* hashed, the two others hashed
C16_Witness ==
    /\ Len(history) = 3
    /\ Cardinality(Range(history)) = 3
    /\ Cardinality(hashed) = 2
    /\ \E p \in Range(history) : p \notin hashed /\ ~SizeShared(p)

----------------------------------------------------------------------------
(* C17 - Parent-step count in relative_path, as stated: the result is one  *)
(* ".." for every component of the canonical base beyond the longest       *)
(* common leading prefix of base and target, followed by the components of *)
(* target beyond that prefix. The code emits one ".." less. (SpecRel)      *)

\* the length of the longest common leading prefix of two sequences
CommonPrefixLen(a, b) ==
    CHOOSE k \in 0..Min(Len(a), Len(b)) :
       /\ \A i \in 1..k : a[i] = b[i]
       /\ k < Min(Len(a), Len(b)) => a[k + 1] # b[k + 1]

\* n parent steps, then target beyond the common prefix
ParentStepsThenRest(n, base, target) ==
    [i \in 1..n |-> ".."] \o Drop(target, CommonPrefixLen(base, target))

C17_ParentStepCount ==
    rp_rel.status = "ok" =>
       rp_rel.rel =
          ParentStepsThenRest(Len(rp_base) - CommonPrefixLen(rp_base, rp_target),
                              rp_base, rp_target)

(* C17, amended: the result is one ".." for every component of the         *)
(* canonical base beyond the longest common leading prefix except one (the *)
(* first of them, which the loop consumes; none when no component is       *)
(* left), that is one ".." per directory between the common prefix and     *)
(* base's last component, followed by the components of target beyond the  *)
(* prefix, verbatim. (SpecRel)                                             *)
C17_ParentStepCountFromParent ==
    rp_rel.status # "pending" =>
       /\ rp_rel.status = "ok"
       /\ rp_rel.rel =
             ParentStepsThenRest(
                IF Len(rp_base) > CommonPrefixLen(rp_base, rp_target)
                THEN Len(rp_base) - CommonPrefixLen(rp_base, rp_target) - 1
                ELSE 0,
                rp_base, rp_target)

\* a base three components below the common prefix and a target two below
C17_Witness ==
    /\ rp_rel.status = "ok"
    /\ rp_base \in CanonicalPaths /\ rp_target \in CanonicalPaths
    /\ CommonPrefixLen(rp_base, rp_target) = 1
    /\ Len(rp_base) = 4 /\ Len(rp_target) = 3
    /\ Len(rp_rel.rel) = 4

----------------------------------------------------------------------------
(* C18 - Full-digest input, as stated: the bytes compute_full_hash feeds   *)
(* to the hash are the file's chunks of the block length, the final,       *)
(* possibly shorter, chunk followed by zero bytes up to the block length,  *)
(* for every file length; short_hash feeds the leading block followed by   *)
(* zero bytes. The final chunk of a file longer than one block is not      *)
(* followed by zeros. (SpecHash)                                           *)

\* the number of chunks compute_full_hash reads from a file of n bytes
NumChunks(n) == (n + HASH_BUFLEN - 1) \div HASH_BUFLEN

\* chunk k of data: its real bytes
Chunk(data, k) ==
    SubSeq(data, (k - 1) * HASH_BUFLEN + 1, Min(k * HASH_BUFLEN, Len(data)))

\* the bytes fed to the hash for chunk k
Fed(stream, k) == SubSeq(stream, (k - 1) * HASH_BUFLEN + 1, k * HASH_BUFLEN)

ZeroPadded(bytes, n) == bytes \o [i \in 1..(n - Len(bytes)) |-> 0]

ShortHashZeroPadded ==
    \A i \in 1..2 :
       h_short[i].ok =>
          h_short[i].hash =
             Sha256(ZeroPadded(Take(h_input[i], HASH_BLOCK_LEN), HASH_BLOCK_LEN))

C18_FullDigestInput ==
    /\ ShortHashZeroPadded
    /\ \A i \in 1..2 :
          h_full[i].ok =>
             /\ Len(h_full[i].hash) = NumChunks(Len(h_input[i])) * HASH_BUFLEN
             /\ \A k \in 1..NumChunks(Len(h_input[i])) :
                   Fed(h_full[i].hash, k) =
                      ZeroPadded(Chunk(h_input[i], k), HASH_BUFLEN)

(* What the code feeds instead: a final chunk shorter than the block is    *)
(* followed by zero bytes when it is the file's only chunk, and otherwise  *)
(* by the bytes the preceding chunk left at the same positions of the      *)
(* buffer, which is not cleared between reads (reads that fill the buffer  *)
(* until the file ends).                                                   *)

\* the buffer after chunk k was read into it
BufferAfter(data, k) ==
    IF k = 1 THEN ZeroPadded(Chunk(data, 1), HASH_BUFLEN)
    ELSE Chunk(data, k)
         \o SubSeq(Chunk(data, k - 1), Len(Chunk(data, k)) + 1, HASH_BUFLEN)

C18_CodeFeedsStaleBytes ==
    /\ ShortHashZeroPadded
    /\ \A i \in 1..2 :
          h_full[i].ok =>
             /\ Len(h_full[i].hash) = NumChunks(Len(h_input[i])) * HASH_BUFLEN
             /\ \A k \in 1..NumChunks(Len(h_input[i])) :
                   Fed(h_full[i].hash, k) = BufferAfter(h_input[i], k)

----------------------------------------------------------------------------
(* C19 - No loss of content: in every state of a run in any mode, also     *)
(* when the same file is reached through two path strings, the file of     *)
(* every path stored in the index is the regular file it was, and every    *)
(* content that a regular file held when the run started is still held by  *)
(* a regular file. (Spec)                                                  *)
C19_NoLossOfContent ==
    /\ \A p \in StoredPaths(size_map) : fs[Locate(p)] = fs0[Locate(p)]
    /\ \A loc \in Locs :
          fs0[loc].kind = "file" =>
             \E kept \in Locs :
                fs[kept].kind = "file" /\ fs[kept].data = fs0[loc].data

----------------------------------------------------------------------------
(* C20 - Padding never merges distinct files: for two files of equal size, *)
(* of every length from 0 to beyond two blocks, the full digests computed  *)
(* by compute_full_hash are equal exactly when the contents are equal, the *)
(* partial digests computed by short_hash are equal exactly when the       *)
(* leading blocks are equal, and so the test check_index makes (partial    *)
(* digests equal and full digests equal) holds exactly for equal           *)
(* contents. (SpecHash)                                                    *)
C20_PaddingNeverMerges ==
    Len(h_input[1]) = Len(h_input[2]) =>
       /\ (h_full[1].ok /\ h_full[2].ok) =>
             (h_full[1].hash = h_full[2].hash <=> h_input[1] = h_input[2])
       /\ (h_short[1].ok /\ h_short[2].ok) =>
             (h_short[1].hash = h_short[2].hash
                <=> Take(h_input[1], HASH_BLOCK_LEN)
                       = Take(h_input[2], HASH_BLOCK_LEN))
       /\ (h_full[1].ok /\ h_full[2].ok /\ h_short[1].ok /\ h_short[2].ok) =>
             ( (h_short[1].hash = h_short[2].hash
                   /\ h_full[1].hash = h_full[2].hash)
                <=> h_input[1] = h_input[2] )

\* two files of two blocks and a short final chunk that differ only in the
\* last byte, all four digests computed
C20_Witness ==
    /\ h_full[1].ok /\ h_full[2].ok /\ h_short[1].ok /\ h_short[2].ok
    /\ Len(h_input[1]) = 2 * HASH_BUFLEN + 1
    /\ Len(h_input[2]) = 2 * HASH_BUFLEN + 1
    /\ Take(h_input[1], 2 * HASH_BUFLEN) = Take(h_input[2], 2 * HASH_BUFLEN)
    /\ h_input[1] # h_input[2]
    /\ h_full[1].hash # h_full[2].hash

====
